---- MODULE Spec2Model ----
(***************************************************************************)
(* glb2stl.py: conversion of a binary glTF container (.glb) to STL.        *)
(*                                                                         *)
(* The model follows main(): parse_glb (one step per read of the input),   *)
(* the diagnostic prints, extract_mesh_from_glb, the selected writer and   *)
(* the except-branch that calls simple_extraction.                         *)
(*                                                                         *)
(* Abstractions.  The input file is its size in bytes plus the content     *)
(* the code looks at, which is drawn when the code reads it: the magic and *)
(* chunk tags (equal / not equal to the expected literal), the declared    *)
(* chunk lengths, what json.loads makes of the JSON chunk, and the 32-bit  *)
(* words of the binary payload (WordAt).  A 32-bit float read from the     *)
(* payload is named by the integer WordAt gives for its offset; a float    *)
(* the fallback reads from the raw file is named by its position in the    *)
(* file.  An output file is the sequence of the fields written to it, each *)
(* with its size in bytes.  Input and output path name different files.    *)
(***************************************************************************)
EXTENDS Integers, Sequences, FiniteSets, TLC

\* ---------------------------------------------------------------- bounds
\* sizes 0..MaxSmallSize: files too short to hold two chunks
MaxSmallSize == 40
\* largest binary payload (in 12-byte triples) of a complete file
MaxPayloadTriples == 5
\* largest file handed to simple_extraction on its own
MaxFallbackBytes == 1240
\* accessor counts the scene may declare
MaxPosCount == 4
MaxIdxCount == 6
\* payload words take the values 0..MaxWordVal
MaxWordVal == 3

\* ------------------------------------------------------ program constants
\* bytes of the fixed header and of a chunk header (parse_glb)
TagBytes == 4
WordBytes == 4
\* 3 floats x 4 bytes, 3 uint32 x 4 bytes
TripleBytes == 12
\* shortest JSON text with the keys extract_mesh_from_glb looks up
MinSceneJsonLen == 131
\* shortest JSON document ("{}", "[]")
MinJsonLen == 2
PrimaryHeaderTextLen == 30
PrimaryHeaderPad == 50
FallbackHeaderTextLen == 17
FallbackHeaderPad == 63
CountBytes == 4
AttrBytes == 2
VertexLimit == 100
FaceLimit == 98

\* ---------------------------------------------------------------- helpers
Min(a, b) == IF a < b THEN a ELSE b
Max(a, b) == IF a > b THEN a ELSE b

\* len(range(start, stop, step)) for step > 0
RangeLen(start, stop, step) ==
  IF stop <= start THEN 0 ELSE (stop - start + step - 1) \div step

\* len(data[a:b]) for 0 <= a <= b on data of len bytes
SliceLen(len, a, b) == Max(0, Min(b, len) - Min(a, len))

\* len(f.read(n)) with size - at bytes left in the file
ReadLen(size, at, n) == Min(n, Max(0, size - at))

\* the 32-bit word of the payload at byte offset o
WordAt(p, o) == (p.seed + (o \div WordBytes)) % (MaxWordVal + 1)

\* ------------------------------------------------- extract_mesh_from_glb
\* struct.unpack of n bytes from bin_data[a:a+n]: raises unless the slice has n bytes
UnpackPads(len, a, n) == TRUE
UnpackOk(len, a, n) == SliceLen(len, a, a + n) = n

\* the vertex loop, lines 69-73: one <<x, y, z>> per i in range(pos_count)
DecodeVertices(off, count, bin) ==
  LET n == RangeLen(0, count, 1)
      at(i) == off + (i - 1) * TripleBytes
  IN  [raised |-> \E i \in 1..n : ~UnpackOk(bin.len, at(i), TripleBytes),
       val |-> [i \in 1..n |-> <<WordAt(bin, at(i)),
                                 WordAt(bin, at(i) + WordBytes),
                                 WordAt(bin, at(i) + 2 * WordBytes)>>]]

\* the face loop, lines 79-83: one <<a, b, c>> per i in range(0, idx_count, 3)
DecodeFaces(off, count, bin) ==
  LET n == RangeLen(0, count, 3)
      at(g) == off + (3 * (g - 1)) * WordBytes
  IN  [raised |-> \E g \in 1..n : ~UnpackOk(bin.len, at(g), TripleBytes),
       val |-> [g \in 1..n |-> <<WordAt(bin, at(g)),
                                 WordAt(bin, at(g) + WordBytes),
                                 WordAt(bin, at(g) + 2 * WordBytes)>>]]

\* extract_mesh_from_glb: the key lookups of lines 56-62 raise unless the scene
\* has the mesh schema; the vertex loop runs, and raises, before the face loop
ExtractMesh(sc, bin) ==
  IF sc.kind # "mesh"
  THEN [raised |-> TRUE, at |-> "schema", vertices |-> <<>>, faces |-> <<>>]
  ELSE LET vs == DecodeVertices(sc.posOff, sc.posCount, bin)
           fs == DecodeFaces(sc.idxOff, sc.idxCount, bin)
       IN  IF vs.raised
           THEN [raised |-> TRUE, at |-> "vertices", vertices |-> <<>>, faces |-> <<>>]
           ELSE IF fs.raised
           THEN [raised |-> TRUE, at |-> "faces", vertices |-> <<>>, faces |-> <<>>]
           ELSE [raised |-> FALSE, at |-> "none", vertices |-> vs.val, faces |-> fs.val]

\* ------------------------------------------------------------ the writers
ZeroNormal == [unit |-> FALSE, dir |-> <<0, 0, 0>>]

\* lines 100-116: cross product of the edges, divided by its norm when that is > 0
FaceNormal(v0, v1, v2) ==
  LET u == <<v1[1] - v0[1], v1[2] - v0[2], v1[3] - v0[3]>>
      v == <<v2[1] - v0[1], v2[2] - v0[2], v2[3] - v0[3]>>
      n == <<u[2] * v[3] - u[3] * v[2],
             u[3] * v[1] - u[1] * v[3],
             u[1] * v[2] - u[2] * v[1]>>
  IN  IF n # <<0, 0, 0>> THEN [unit |-> TRUE, dir |-> n] ELSE ZeroNormal

\* vertices[idx] raises IndexError for idx >= len(vertices) (indices are unsigned)
InRange(vertices, face) == \A j \in 1..3 : face[j] < Len(vertices)

Field(kind, bytes, val) == [kind |-> kind, bytes |-> bytes, val |-> val]

BinaryHeader(textLen, pad) == Field("header", textLen + pad, textLen)

\* lines 119-127 (and 241-245): normal, the three vertices in face order, attribute
BinaryRecordNoAttr(vertices, face, normal) ==
  <<Field("normal", TripleBytes, normal),
    Field("vertex", TripleBytes, vertices[face[1] + 1]),
    Field("vertex", TripleBytes, vertices[face[2] + 1]),
    Field("vertex", TripleBytes, vertices[face[3] + 1])>>
BinaryRecord(vertices, face, normal) ==
  <<Field("normal", TripleBytes, normal),
    Field("vertex", TripleBytes, vertices[face[1] + 1]),
    Field("vertex", TripleBytes, vertices[face[2] + 1]),
    Field("vertex", TripleBytes, vertices[face[3] + 1]),
    Field("attr", AttrBytes, 0)>>

\* what consecutive f.write calls leave in the file: the records one after another
Flatten(recs) ==
  IF recs = <<>> THEN <<>>
  ELSE LET w == Len(recs[1])
       IN  [i \in 1..(w * Len(recs)) |-> recs[((i - 1) \div w) + 1][((i - 1) % w) + 1]]

\* the faces a writer's loop gets through: all of them, or those before the first
\* one whose vertex lookup raises
Written(vertices, faces) ==
  LET bad == {k \in 1..Len(faces) : ~InRange(vertices, faces[k])}
  IN  IF bad = {} THEN Len(faces)
      ELSE (CHOOSE k \in bad : \A j \in bad : k <= j) - 1

\* the loop of lines 98-127
BinaryFaces(vertices, faces) ==
  LET g == Written(vertices, faces)
      rec(k) == LET f == faces[k]
                IN  BinaryRecord(vertices, f,
                      FaceNormal(vertices[f[1] + 1], vertices[f[2] + 1], vertices[f[3] + 1]))
  IN  [raised |-> g < Len(faces), fields |-> Flatten([k \in 1..g |-> rec(k)])]

\* write_stl_binary: open(filename, 'wb') truncates; header, count, then the faces
WriteStlBinary(vertices, faces) ==
  LET r == BinaryFaces(vertices, faces)
  IN  [raised |-> r.raised,
       file |-> [variant |-> "binary",
                 fields |-> <<BinaryHeader(PrimaryHeaderTextLen, PrimaryHeaderPad),
                              Field("count", CountBytes, Len(faces))>> \o r.fields]]

Line(kind, val) == [kind |-> kind, val |-> val]

\* lines 150-158
AsciiFacet(vertices, face, normal) ==
  <<Line("facet normal", normal), Line("outer loop", 0),
    Line("vertex", vertices[face[1] + 1]),
    Line("vertex", vertices[face[2] + 1]),
    Line("vertex", vertices[face[3] + 1]),
    Line("endloop", 0), Line("endfacet", 0)>>

\* the loop of lines 136-158
AsciiFaces(vertices, faces) ==
  LET g == Written(vertices, faces)
      rec(k) == LET f == faces[k]
                IN  AsciiFacet(vertices, f,
                      FaceNormal(vertices[f[1] + 1], vertices[f[2] + 1], vertices[f[3] + 1]))
  IN  [raised |-> g < Len(faces), fields |-> Flatten([k \in 1..g |-> rec(k)])]

\* write_stl_ascii: open(filename, 'w') truncates; solid line, facets, endsolid line
WriteStlAscii(vertices, faces) ==
  LET r == AsciiFaces(vertices, faces)
  IN  [raised |-> r.raised,
       file |-> [variant |-> "text",
                 fields |-> <<Line("solid", 0)>> \o r.fields
                            \o (IF r.raised THEN <<>> ELSE <<Line("endsolid", 0)>>)]]

\* size in bytes of a binary output file
RECURSIVE FileBytes(_)
FileBytes(fields) ==
  IF fields = <<>> THEN 0 ELSE Head(fields).bytes + FileBytes(Tail(fields))

\* ------------------------------------------------------ simple_extraction
\* line 215: the file as len(data) // 4 floats
FloatCount(size) == size \div WordBytes

\* lines 218-220: one vertex per i in range(0, len(floats) - 2, 3); a float is
\* named by its position in the file
GroupVertices(nfloats) ==
  [j \in 1..RangeLen(0, nfloats - 2, 3) |->
     <<3 * (j - 1), 3 * (j - 1) + 1, 3 * (j - 1) + 2>>]

\* line 222
TooFewNever(n) == FALSE
TooFew(n) == n < 3

\* lines 227-229: [0, i, i+1] for i in range(1, len(vertices) - 1)
FanFacesLong(n) == [i \in 1..RangeLen(1, n, 1) |-> <<0, i, i + 1>>]
FanFaces(n) == [i \in 1..RangeLen(1, n - 1, 1) |-> <<0, i, i + 1>>]

\* seq[:n]
Prefix(seq, n) == SubSeq(seq, 1, Min(n, Len(seq)))

\* the loop of lines 240-245
FallbackFaces(vertices, faces) ==
  LET g == Written(vertices, faces)
  IN  [raised |-> g < Len(faces),
       fields |-> Flatten([k \in 1..g |-> BinaryRecord(vertices, faces[k], ZeroNormal)])]

\* simple_extraction on a file of size bytes: wrote = FALSE is the early return
SimpleExtraction(size) ==
  LET all == GroupVertices(FloatCount(size))
      vertices == Prefix(all, VertexLimit)
      faces == Prefix(FanFaces(Len(all)), FaceLimit)
      r == FallbackFaces(vertices, faces)
      head == <<BinaryHeader(FallbackHeaderTextLen, FallbackHeaderPad),
                Field("count", CountBytes, Len(faces))>>
  IN  IF TooFew(Len(all))
      THEN [wrote |-> FALSE, raised |-> FALSE, nvertices |-> Len(all),
            faces |-> <<>>, file |-> [variant |-> "none", fields |-> <<>>]]
      ELSE [wrote |-> TRUE, raised |-> r.raised, nvertices |-> Len(all),
            faces |-> faces, file |-> [variant |-> "binary", fields |-> head \o r.fields]]

\* ------------------------------------------------------------------ main
VARIABLES
  argv,          \* sys.argv
  inputExists,   \* the input path can be opened
  fileSize,      \* bytes in the input file
  pc,            \* position in main / parse_glb
  pos,           \* parse_glb's position in the input file
  reads,         \* what parse_glb has read so far, in order
  chunkLength,   \* chunk_length
  scene,         \* what json.loads returned
  bin,           \* bin_data: its length and its words
  mesh,          \* what extract_mesh_from_glb returned
  raisedAt,      \* the step of the try block that raised, "none" before
  out,           \* the file at the output path
  opens,         \* who opened the output path for writing, in order
  fallbackCalls, \* calls of simple_extraction
  fallback       \* what simple_extraction did

vars == <<argv, inputExists, fileSize, pc, pos, reads, chunkLength, scene, bin,
          mesh, raisedAt, out, opens, fallbackCalls, fallback>>

\* the output path as the run found it (absent, or whatever it held)
Untouched == [variant |-> "untouched", fields |-> <<>>]
NoScene == [kind |-> "none"]
NoBin == [len |-> 0, seed |-> 0]
NoMesh == [raised |-> FALSE, at |-> "none", vertices |-> <<>>, faces |-> <<>>]
NoFallback == [wrote |-> FALSE, raised |-> FALSE, nvertices |-> 0, faces |-> <<>>,
               file |-> [variant |-> "none", fields |-> <<>>]]

Argvs == {<<"glb2stl.py", "in.glb">>,
          <<"glb2stl.py", "in.glb", "out.stl">>,
          <<"glb2stl.py", "in.glb", "out.stl", "--ascii">>,
          <<"glb2stl.py", "in.glb", "out.stl", "--binary">>}

\* bytes before the payload of a file whose JSON chunk has n bytes
PayloadStart(n) == 3 * WordBytes + 2 * (WordBytes + TagBytes) + n

\* payloads of whole triples, and of whole triples and one more word
PayloadLens == {TripleBytes * k + r : k \in 0..MaxPayloadTriples, r \in {0, WordBytes}}

FileSizes ==
  (0..MaxSmallSize)
  \cup {PayloadStart(MinSceneJsonLen) + n : n \in PayloadLens}

JsonLens == {MinJsonLen, MinSceneJsonLen}
BinLens == {TripleBytes * MaxPayloadTriples + WordBytes}
Offsets == {0, TripleBytes}

\* the mesh scenes: the byteOffset and count of the two accessors
MeshScenes ==
  [kind : {"mesh"}, posOff : Offsets, posCount : 0..MaxPosCount,
   idxOff : Offsets, idxCount : 0..MaxIdxCount]

\* what json.loads can return for n bytes of JSON text: it raises ("badjson"), or
\* returns a value that is no dict, a dict without the mesh keys, or a mesh scene
Scenes(n) ==
  {[kind |-> "badjson"], [kind |-> "nondict"], [kind |-> "noschema"]}
  \cup (IF n >= MinSceneJsonLen THEN MeshScenes ELSE {})

Init ==
  /\ argv \in Argvs
  /\ inputExists \in BOOLEAN
  /\ fileSize \in (IF inputExists THEN FileSizes ELSE {0})
  /\ pc = "main"
  /\ pos = 0
  /\ reads = <<>>
  /\ chunkLength = 0
  /\ scene = NoScene
  /\ bin = NoBin
  /\ mesh = NoMesh
  /\ raisedAt = "none"
  /\ out = Untouched
  /\ opens = <<>>
  /\ fallbackCalls = 0
  /\ fallback = NoFallback

\* line 173
UseAsciiAnyThird(a) == Len(a) > 3
UseAscii(a) == Len(a) > 3 /\ a[4] = "--ascii"

\* an exception leaves the try block for the except clause of line 195
Raise(at) == /\ raisedAt' = at
             /\ pc' = "except"

\* f.read(n): the position moves by the bytes read, and the read is logged
Read(what, n) == /\ pos' = pos + ReadLen(fileSize, pos, n)
                 /\ reads' = Append(reads, what)

\* lines 165-173
Main ==
  /\ pc = "main"
  /\ pc' = IF Len(argv) < 3 THEN "usage" ELSE "open"
  /\ UNCHANGED <<argv, inputExists, fileSize, pos, reads, chunkLength, scene, bin,
                 mesh, raisedAt, out, opens, fallbackCalls, fallback>>

\* line 14
OpenInput ==
  /\ pc = "open"
  /\ IF inputExists THEN pc' = "magic" /\ raisedAt' = raisedAt ELSE Raise("open")
  /\ UNCHANGED <<argv, inputExists, fileSize, pos, reads, chunkLength, scene, bin,
                 mesh, out, opens, fallbackCalls, fallback>>

\* lines 16-18, with the check moved below the reads of lines 20-27
ReadMagicLate ==
  /\ pc = "magic"
  /\ pos' = pos + ReadLen(fileSize, pos, TagBytes + 3 * WordBytes + TagBytes)
  /\ reads' = reads \o <<"magic", "version", "length", "jsonheader-length", "jsonheader-tag">>
  /\ chunkLength' \in JsonLens
  /\ \E matches \in {m \in BOOLEAN :
                       m => ReadLen(fileSize, pos, TagBytes + 3 * WordBytes + TagBytes)
                            = TagBytes + 3 * WordBytes + TagBytes} :
       IF matches THEN pc' = "jsonbody" /\ raisedAt' = raisedAt ELSE Raise("magic")
  /\ UNCHANGED <<argv, inputExists, fileSize, scene, bin, mesh, out,
                 opens, fallbackCalls, fallback>>

\* lines 16-18: the 4 bytes read equal b'glTF' or not; fewer than 4 never do
ReadMagic ==
  /\ pc = "magic"
  /\ Read("magic", TagBytes)
  /\ \E matches \in {m \in BOOLEAN : m => ReadLen(fileSize, pos, TagBytes) = TagBytes} :
       IF matches THEN pc' = "version" /\ raisedAt' = raisedAt ELSE Raise("magic")
  /\ UNCHANGED <<argv, inputExists, fileSize, chunkLength, scene, bin, mesh, out,
                 opens, fallbackCalls, fallback>>

\* lines 20-21: struct.unpack raises on a short read, so length is read only
\* after version was unpacked
ReadVersionLength ==
  /\ pc = "version"
  /\ IF ReadLen(fileSize, pos, WordBytes) < WordBytes
     THEN Read("version", WordBytes) /\ Raise("version")
     ELSE /\ pos' = pos + WordBytes + ReadLen(fileSize, pos + WordBytes, WordBytes)
          /\ reads' = reads \o <<"version", "length">>
          /\ IF ReadLen(fileSize, pos + WordBytes, WordBytes) < WordBytes
             THEN Raise("length")
             ELSE pc' = "jsonheader" /\ raisedAt' = raisedAt
  /\ UNCHANGED <<argv, inputExists, fileSize, chunkLength, scene, bin, mesh, out,
                 opens, fallbackCalls, fallback>>

\* a chunk header, lines 26-30 and 39-43: the length (unpack raises on a short
\* read), then the tag, compared with the expected literal
ReadChunkHeader(here, lens, next) ==
  /\ pc = here
  /\ IF ReadLen(fileSize, pos, WordBytes) < WordBytes
     THEN /\ Read(here \o "-length", WordBytes)
          /\ Raise(here \o "-length")
          /\ chunkLength' = chunkLength
     ELSE /\ pos' = pos + WordBytes + ReadLen(fileSize, pos + WordBytes, TagBytes)
          /\ reads' = reads \o <<here \o "-length", here \o "-tag">>
          /\ chunkLength' \in lens
          /\ \E matches \in {m \in BOOLEAN :
                               m => ReadLen(fileSize, pos + WordBytes, TagBytes) = TagBytes} :
               IF matches THEN pc' = next /\ raisedAt' = raisedAt
               ELSE Raise(here \o "-tag")
  /\ UNCHANGED <<argv, inputExists, fileSize, scene, bin, mesh, out, opens,
                 fallbackCalls, fallback>>

ReadJsonHeader == ReadChunkHeader("jsonheader", JsonLens, "jsonbody")

\* lines 33-34: json.loads of the bytes read; a short read leaves text that is
\* no mesh scene
ReadJsonBody ==
  /\ pc = "jsonbody"
  /\ Read("jsonbody", chunkLength)
  /\ \E sc \in Scenes(ReadLen(fileSize, pos, chunkLength)) :
       /\ ReadLen(fileSize, pos, chunkLength) < chunkLength => sc.kind \in {"badjson", "nondict"}
       /\ IF sc.kind = "badjson"
          THEN scene' = scene /\ Raise("json")
          ELSE scene' = sc /\ pc' = "binheader" /\ raisedAt' = raisedAt
  /\ UNCHANGED <<argv, inputExists, fileSize, chunkLength, bin, mesh, out, opens,
                 fallbackCalls, fallback>>

ReadBinHeader == ReadChunkHeader("binheader", BinLens, "binbody")

\* lines 46-50: bin_data is what is left of the declared length; parse_glb returns
ReadBinBody ==
  /\ pc = "binbody"
  /\ Read("binbody", chunkLength)
  /\ \E seed \in 0..MaxWordVal :
       bin' = [len |-> ReadLen(fileSize, pos, chunkLength), seed |-> seed]
  /\ pc' = "meshcount"
  /\ UNCHANGED <<argv, inputExists, fileSize, chunkLength, scene, mesh, raisedAt,
                 out, opens, fallbackCalls, fallback>>

\* line 179: scene.get raises unless json.loads returned a dict
PrintMeshCount ==
  /\ pc = "meshcount"
  /\ IF scene.kind = "nondict" THEN Raise("meshcount")
     ELSE pc' = "extract" /\ raisedAt' = raisedAt
  /\ UNCHANGED <<argv, inputExists, fileSize, pos, reads, chunkLength, scene, bin,
                 mesh, out, opens, fallbackCalls, fallback>>

\* line 181
Extract ==
  /\ pc = "extract"
  /\ LET m == ExtractMesh(scene, bin)
     IN  IF m.raised
         THEN mesh' = mesh /\ Raise("extract")
         ELSE mesh' = m /\ pc' = "info" /\ raisedAt' = raisedAt
  /\ UNCHANGED <<argv, inputExists, fileSize, pos, reads, chunkLength, scene, bin,
                 out, opens, fallbackCalls, fallback>>

\* vertices[:,0] of lines 184-186: np.array([]) has one dimension, and indexing
\* it with two raises IndexError
BoundsRaise(vertices) == Len(vertices) = 0

\* lines 183-186
PrintInfo ==
  /\ pc = "info"
  /\ IF BoundsRaise(mesh.vertices) THEN Raise("info")
     ELSE pc' = "write" /\ raisedAt' = raisedAt
  /\ UNCHANGED <<argv, inputExists, fileSize, pos, reads, chunkLength, scene, bin,
                 mesh, out, opens, fallbackCalls, fallback>>

\* lines 188-193: the writer opens the output path, which truncates it, and what
\* it wrote before raising stays in the file
Write ==
  /\ pc = "write"
  /\ LET w == IF UseAscii(argv) THEN WriteStlAscii(mesh.vertices, mesh.faces)
              ELSE WriteStlBinary(mesh.vertices, mesh.faces)
     IN  /\ out' = w.file
         /\ opens' = Append(opens, IF UseAscii(argv) THEN "write_stl_ascii"
                                   ELSE "write_stl_binary")
         /\ IF w.raised THEN Raise("writer")
            ELSE pc' = "done" /\ raisedAt' = raisedAt
  /\ UNCHANGED <<argv, inputExists, fileSize, pos, reads, chunkLength, scene, bin,
                 mesh, fallbackCalls, fallback>>

\* lines 195-202 and simple_extraction: it reads the input file again; opening
\* it raises when it cannot be opened, and nothing catches that
Except ==
  /\ pc = "except"
  /\ fallbackCalls' = fallbackCalls + 1
  /\ IF ~inputExists
     THEN /\ pc' = "crashed"
          /\ UNCHANGED <<out, opens, fallback>>
     ELSE LET r == SimpleExtraction(fileSize)
          IN  /\ fallback' = r
              /\ out' = IF r.wrote THEN r.file ELSE out
              /\ opens' = IF r.wrote THEN Append(opens, "simple_extraction") ELSE opens
              /\ pc' = IF r.raised THEN "crashed" ELSE "done"
  /\ UNCHANGED <<argv, inputExists, fileSize, pos, reads, chunkLength, scene, bin,
                 mesh, raisedAt>>

Next ==
  \/ Main
  \/ OpenInput
  \/ ReadMagic
  \/ ReadVersionLength
  \/ ReadJsonHeader
  \/ ReadJsonBody
  \/ ReadBinHeader
  \/ ReadBinBody
  \/ PrintMeshCount
  \/ Extract
  \/ PrintInfo
  \/ Write
  \/ Except

Spec == Init /\ [][Next]_vars

\* simple_extraction on its own: main was given a file that does not start with
\* the magic tag, of any size up to MaxFallbackBytes, and parse_glb has raised
InitFallback ==
  /\ argv \in {a \in Argvs : Len(a) >= 3}
  /\ inputExists = TRUE
  /\ fileSize \in 0..MaxFallbackBytes
  /\ pc = "except"
  /\ pos = ReadLen(fileSize, 0, TagBytes)
  /\ reads = <<"magic">>
  /\ chunkLength = 0
  /\ scene = NoScene
  /\ bin = NoBin
  /\ mesh = NoMesh
  /\ raisedAt = "magic"
  /\ out = Untouched
  /\ opens = <<>>
  /\ fallbackCalls = 0
  /\ fallback = NoFallback

FallbackSpec == InitFallback /\ [][Except]_vars

\* ---------------------------------------------------------------- claims
Final == pc \in {"usage", "done", "crashed"}

\* the steps of parse_glb that can raise
ParseSteps == {"open", "magic", "version", "length", "jsonheader-length",
               "jsonheader-tag", "json", "binheader-length", "binheader-tag"}

PrimaryWriters == {"write_stl_ascii", "write_stl_binary"}
WriterEntered == \E i \in 1..Len(opens) : opens[i] \in PrimaryWriters

\* extract_mesh_from_glb was called and returned its two arrays / was called
ExtractReturned ==
  \/ pc \in {"info", "write"}
  \/ raisedAt \in {"info", "writer"}
  \/ pc = "done" /\ raisedAt = "none"
ExtractRan == ExtractReturned \/ raisedAt = "extract"

AsciiRequested == Len(argv) > 3 /\ argv[4] = "--ascii"

\* C1: at the end of a run with both arguments, simple_extraction was called once
\* if parse_glb, extract_mesh_from_glb or the writer raised, and never otherwise.
C1_FallbackIffPrimaryStepRaised ==
  pc \in {"done", "crashed"} =>
    fallbackCalls = (IF raisedAt \in ParseSteps \cup {"extract", "writer"} THEN 1 ELSE 0)

\* C2: when the bytes of the N declared indices are in the payload (and the
\* vertices decode), extract_mesh_from_glb returns floor(N/3) triangles, the
\* first 3*floor(N/3) indices in order.
C2_FloorTriangles ==
  ( /\ ExtractRan
    /\ scene.kind = "mesh"
    /\ scene.posCount = 0 \/ scene.posOff + TripleBytes * scene.posCount <= bin.len
    /\ scene.idxOff + WordBytes * scene.idxCount <= bin.len )
  => /\ ExtractReturned
     /\ Len(mesh.faces) = scene.idxCount \div 3
     /\ \A g \in 1..Len(mesh.faces) :
          mesh.faces[g] = <<WordAt(bin, scene.idxOff + WordBytes * (3 * g - 3)),
                            WordAt(bin, scene.idxOff + WordBytes * (3 * g - 2)),
                            WordAt(bin, scene.idxOff + WordBytes * (3 * g - 1))>>

C4_OutOfRangeFailsAtDecode ==
  ExtractReturned => \A k \in 1..Len(mesh.faces) : InRange(mesh.vertices, mesh.faces[k])

\* C5: for a file of F floats with V = floor(F/3) >= 3, simple_extraction returns
\* normally having written min(V-2, 98) triangles, the k-th being (0, k, k+1) with
\* the zero normal, and every index written is below min(V, 100).
C5_FallbackFan ==
  LET V == (fileSize \div 4) \div 3
      T == IF V - 2 < 98 THEN V - 2 ELSE 98
      vertex(j) == <<3 * j, 3 * j + 1, 3 * j + 2>>
  IN  (fallbackCalls = 1 /\ V >= 3) =>
        /\ pc = "done"
        /\ opens = <<"simple_extraction">>
        /\ out.variant = "binary"
        /\ out.fields[2].val = T
        /\ Len(out.fields) = 2 + 5 * T
        /\ fallback.faces = [k \in 1..T |-> <<0, k, k + 1>>]
        /\ \A k \in 1..T :
             /\ k + 1 < (IF V < 100 THEN V ELSE 100)
             /\ out.fields[5 * k - 2].val = [unit |-> FALSE, dir |-> <<0, 0, 0>>]
             /\ out.fields[5 * k - 1].val = vertex(0)
             /\ out.fields[5 * k].val = vertex(k)
             /\ out.fields[5 * k + 1].val = vertex(k + 1)
        /\ (fileSize \div 4 = 12 => fallback.faces = <<(<<0, 1, 2>>), (<<0, 2, 3>>)>>)

C5_Witness ==
  /\ pc = "done"
  /\ fallbackCalls = 1
  /\ fallback.nvertices > 100
  /\ Len(fallback.faces) = 98

\* C6 as stated: whenever posOff + 12 * posCount exceeds the payload length,
\* extract_mesh_from_glb raises, no primary writer runs and the fallback is called.
C6_RangeExceedsFails ==
  ( /\ ExtractRan
    /\ scene.kind = "mesh"
    /\ scene.posOff + TripleBytes * scene.posCount > bin.len )
  => /\ raisedAt = "extract"
     /\ ~WriterEntered
     /\ Final => fallbackCalls = 1

\* C6 amended: the same for a position accessor of at least one element.
C6_NonEmptyRangeExceedsFails ==
  ( /\ ExtractRan
    /\ scene.kind = "mesh"
    /\ scene.posCount >= 1
    /\ scene.posOff + TripleBytes * scene.posCount > bin.len )
  => /\ raisedAt = "extract"
     /\ ~WriterEntered
     /\ Final => fallbackCalls = 1

C6_Witness ==
  /\ pc = "done"
  /\ raisedAt = "extract"
  /\ scene.kind = "mesh"
  /\ scene.posCount >= 2
  /\ scene.posOff + TripleBytes * scene.posCount > bin.len
  /\ bin.len >= scene.posOff + TripleBytes
  /\ fallbackCalls = 1

\* C7: when parse_glb raises for the magic tag it has read nothing but those 4
\* bytes; when it raises for the JSON tag it has not read the JSON body, and when
\* it raises for the BIN tag it has not read the payload: the tag just compared
\* is the last thing read.
C7_TagCheckBeforeRead ==
  LET readSet == {reads[i] : i \in 1..Len(reads)}
  IN  /\ raisedAt = "magic" => reads = <<"magic">> /\ pos <= 4
      /\ raisedAt = "jsonheader-tag" =>
           /\ reads[Len(reads)] = "jsonheader-tag"
           /\ readSet \cap {"jsonbody", "binheader-length", "binheader-tag", "binbody"} = {}
           /\ pos <= 20
      /\ raisedAt = "binheader-tag" =>
           /\ reads[Len(reads)] = "binheader-tag"
           /\ "binbody" \notin readSet

C7_Witness ==
  /\ raisedAt = "magic"
  /\ fileSize >= 20
  /\ pos = 4

\* C8: a call of simple_extraction that derives fewer than 3 pseudo-vertices
\* leaves the output path as it was, opens nothing, and returns normally.
C8_TooFewVerticesNoOutput ==
  [][ (pc = "except" /\ inputExists /\ (fileSize \div 4) \div 3 < 3)
      => (out' = out /\ opens' = opens /\ pc' = "done") ]_vars

C8_Witness ==
  /\ pc = "done"
  /\ fallbackCalls = 1
  /\ fallback.nvertices = 2
  /\ ~fallback.wrote
  /\ out = Untouched

\* C9: a run in which extract_mesh_from_glb returned has entered the writer the
\* ascii flag selects by the time it ends.
C9_ExtractReturnReachesWriter ==
  (pc \in {"done", "crashed"} /\ ExtractReturned) =>
    /\ opens # <<>>
    /\ opens[1] = (IF AsciiRequested THEN "write_stl_ascii" ELSE "write_stl_binary")

====
